---- MODULE Spec2Model ----
(***************************************************************************)
(* A model of src/src/main.py, the pharmacy claims pipeline: main() loads  *)
(* three record collections, cleans and filters the claims, and runs the   *)
(* three goal computations, writing one file after each.                   *)
(*                                                                         *)
(* A DataFrame is a record [cols, rows]: the set of its column names and   *)
(* the sequence of its rows.  A row holds every field the model knows; a   *)
(* field a record lacks is NaN.  Identifier cells are strings.  A price or *)
(* quantity cell is a tagged value: the raw text of a CSV cell (a sequence *)
(* of characters), a number (an exact fraction n/d in lowest terms, which  *)
(* stands for the float64 of the program) or NaN.                          *)
(***************************************************************************)
EXTENDS Integers, Sequences, FiniteSets, TLC

VARIABLES
    claims_loaded,   \* what load_data_from_dirs(args.claims_dirs) returned
    pharmacy_df,     \* main's pharmacy_df
    claims_df,       \* main's claims_df (the object the goals are given)
    reverts_df,      \* main's reverts_df
    pc,              \* where main is
    files,           \* the output files written so far
    goal_2_output,   \* rows of the Goal 2 frame
    goal_3_output,   \* records of the Goal 3 list
    goal_4_output    \* records of the Goal 4 list

vars == << claims_loaded, pharmacy_df, claims_df, reverts_df, pc, files,
           goal_2_output, goal_3_output, goal_4_output >>

----------------------------------------------------------------------------
(* Cells and numbers *)

\* A missing identifier (pandas NaN / None in an object column).
NaN == "NaN"

\* A missing price or quantity.
NaNCell == [t |-> "nan", s |-> << >>, n |-> 0, d |-> 1]

\* The text of a CSV cell (read_csv(dtype=str)).
Str(cs) == [t |-> "str", s |-> cs, n |-> 0, d |-> 1]

Abs(x) == IF x < 0 THEN -x ELSE x

RECURSIVE GCD(_, _)
GCD(a, b) == IF b = 0 THEN a ELSE GCD(b, a % b)

\* The number n/d (d # 0), in lowest terms with a positive denominator.
Num(n, d) ==
    LET g  == GCD(Abs(n), Abs(d))
        sg == IF d < 0 THEN -1 ELSE 1
    IN  [t |-> "num", s |-> << >>, n |-> sg * (n \div g), d |-> sg * (d \div g)]

IsNum(c) == c.t = "num"

RAdd(a, b) == Num(a.n * b.d + b.n * a.d, a.d * b.d)

\* a / b for b # 0.
RDiv(a, b) == Num(a.n * b.d, a.d * b.n)

RLess(a, b) == a.n * b.d < b.n * a.d

RLeq(a, b) == a.n * b.d <= b.n * a.d

Zero == Num(0, 1)

RECURSIVE RSum(_)
RSum(xs) == IF xs = << >> THEN Zero ELSE RAdd(Head(xs), RSum(Tail(xs)))

\* The mean of a non-empty sequence of numbers.
RMean(xs) == RDiv(RSum(xs), Num(Len(xs), 1))

\* Round2 with the rounding of lines 68-69 left out.
RoundNone(x) == x

\* Series.round(2): to the nearest hundredth, a tie going to the even one.
Round2(x) ==
    LET y    == 100 * x.n
        f    == y \div x.d
        rem2 == 2 * (y - f * x.d)
        up   == rem2 > x.d \/ (rem2 = x.d /\ f % 2 = 1)
    IN  Num(IF up THEN f + 1 ELSE f, 100)

----------------------------------------------------------------------------
(* pd.to_numeric(..., errors='coerce') *)

Digits == << "0", "1", "2", "3", "4", "5", "6", "7", "8", "9" >>

IsDigit(c) == \E i \in 1..10 : Digits[i] = c

DigitVal(c) == (CHOOSE i \in 1..10 : Digits[i] = c) - 1

RECURSIVE DigitsValue(_)
DigitsValue(cs) ==
    IF cs = << >> THEN 0
    ELSE 10 * DigitsValue(SubSeq(cs, 1, Len(cs) - 1)) + DigitVal(cs[Len(cs)])

RECURSIVE Pow10(_)
Pow10(k) == IF k = 0 THEN 1 ELSE 10 * Pow10(k - 1)

\* The number a text denotes: an optional "-", digits, an optional "." and
\* digits; NaN for any other text.
ParseDecimal(cs) ==
    LET neg  == Len(cs) > 0 /\ cs[1] = "-"
        body == IF neg THEN Tail(cs) ELSE cs
        dots == {i \in 1..Len(body) : body[i] = "."}
        dot  == IF dots = {} THEN Len(body) + 1 ELSE CHOOSE i \in dots : TRUE
        ip   == SubSeq(body, 1, dot - 1)
        fp   == SubSeq(body, dot + 1, Len(body))
        ok   == /\ Cardinality(dots) <= 1
                /\ Len(ip) + Len(fp) > 0
                /\ \A i \in 1..Len(ip) : IsDigit(ip[i])
                /\ \A i \in 1..Len(fp) : IsDigit(fp[i])
        mag  == DigitsValue(ip \o fp)
    IN  IF ok THEN Num(IF neg THEN -mag ELSE mag, Pow10(Len(fp))) ELSE NaNCell

\* A cell after pd.to_numeric(errors='coerce').
ToNumeric(c) == IF c.t = "str" THEN ParseDecimal(c.s) ELSE c

----------------------------------------------------------------------------
(* DataFrames *)

Frame(cols, rows) == [cols |-> cols, rows |-> rows]

\* pd.DataFrame(): no columns, no rows.
EmptyFrame == Frame({}, << >>)

\* DataFrame.empty: no rows or no columns.
Empty(df) == df.rows = << >> \/ df.cols = {}

Range(s) == {s[i] : i \in 1..Len(s)}

NumericFields == {"price", "quantity"}

\* Whether field c of row r is missing (isna).
Missing(r, c) == IF c \in NumericFields THEN r[c].t = "nan" ELSE r[c] = NaN

\* DataFrame.dropna(subset=...): the rows with none of the fields missing.
DropNa(df, subset) ==
    Frame(df.cols, SelectSeq(df.rows, LAMBDA r : \A c \in subset : ~Missing(r, c)))

\* Series.isin(values) for one cell.
IsIn(v, values) == v \in values

\* The sorted group keys of groupby(['npi', 'ndc']): rows with a missing key
\* are left out (dropna=True).
NpiNdcKeys(rows) ==
    {<< r.npi, r.ndc >> : r \in {x \in Range(rows) : x.npi # NaN /\ x.ndc # NaN}}

\* The rows of one (npi, ndc) group.
NpiNdcGroup(rows, k) == SelectSeq(rows, LAMBDA r : r.npi = k[1] /\ r.ndc = k[2])

\* agg(('id', 'count')): the rows of a group whose id is not missing.
CountId(rows) == Len(SelectSeq(rows, LAMBDA r : r.id # NaN))

\* The column xs[i][c] of a sequence of rows.
Column(xs, c) == [i \in 1..Len(xs) |-> xs[i][c]]

----------------------------------------------------------------------------
(* calculate_goal_2_metrics *)

\* The claim_id values of the revert frame.
RevertIds(reverts) == {r.claim_id : r \in Range(reverts.rows)}

\* valid_claims_df with the revert filter of line 44 left out.
valid_claims_df_KeepReverted(claims, reverts) ==
    LET coerced == [i \in 1..Len(claims.rows) |->
                       [claims.rows[i] EXCEPT
                           !.price = ToNumeric(claims.rows[i].price),
                           !.quantity = ToNumeric(claims.rows[i].quantity)]]
        posit   == SelectSeq(coerced,
                             LAMBDA r : /\ IsNum(r.price) /\ IsNum(r.quantity)
                                        /\ RLess(Zero, r.quantity))
    IN  [i \in 1..Len(posit) |->
            [id |-> posit[i].id, npi |-> posit[i].npi, ndc |-> posit[i].ndc,
             price |-> posit[i].price, quantity |-> posit[i].quantity,
             unit_price |-> RDiv(posit[i].price, posit[i].quantity)]]

\* Lines 44-50 (and, word for word, 78-83): the claims not reverted, price
\* and quantity coerced to numbers, rows where either is missing or where
\* quantity <= 0 dropped, unit_price = price / quantity added.
valid_claims_df(claims, reverts) ==
    LET kept    == SelectSeq(claims.rows,
                             LAMBDA r : ~IsIn(r.id, RevertIds(reverts)))
        coerced == [i \in 1..Len(kept) |->
                       [kept[i] EXCEPT !.price = ToNumeric(kept[i].price),
                                       !.quantity = ToNumeric(kept[i].quantity)]]
        nonnull == SelectSeq(coerced,
                             LAMBDA r : IsNum(r.price) /\ IsNum(r.quantity))
        posit   == SelectSeq(nonnull, LAMBDA r : RLess(Zero, r.quantity))
    IN  [i \in 1..Len(posit) |->
            [id |-> posit[i].id, npi |-> posit[i].npi, ndc |-> posit[i].ndc,
             price |-> posit[i].price, quantity |-> posit[i].quantity,
             unit_price |-> RDiv(posit[i].price, posit[i].quantity)]]

\* Lines 52-55: per (npi, ndc) of the valid claims, the mean unit price and
\* the sum of the prices.
metrics_df(valid) ==
    [k \in NpiNdcKeys(valid) |->
        [avg_price   |-> RMean(Column(NpiNdcGroup(valid, k), "unit_price")),
         total_price |-> RSum(Column(NpiNdcGroup(valid, k), "price"))]]

\* Line 57: per (npi, ndc) of all the claims, the number of ids.
fills_count(claims) ==
    [k \in NpiNdcKeys(claims.rows) |-> CountId(NpiNdcGroup(claims.rows, k))]

\* reverted_claims_info as a join of the claims with the revert records in
\* place of isin: one row per (claim, revert record) pair.
RECURSIVE reverted_claims_info_Joined(_, _)
reverted_claims_info_Joined(claims, reverts) ==
    IF claims.rows = << >> THEN << >>
    ELSE LET c == Head(claims.rows)
             m == SelectSeq(reverts.rows, LAMBDA v : v.claim_id = c.id)
         IN  [j \in 1..Len(m) |-> c]
             \o reverted_claims_info_Joined(Frame(claims.cols, Tail(claims.rows)),
                                            reverts)

\* Line 59: the claims whose id is among the revert claim_ids.
reverted_claims_info(claims, reverts) ==
    SelectSeq(claims.rows, LAMBDA r : IsIn(r.id, RevertIds(reverts)))

\* Line 60: per (npi, ndc) of the reverted claims, the number of ids.
reverts_count(claims, reverts) ==
    LET info == reverted_claims_info(claims, reverts)
    IN  [k \in NpiNdcKeys(info) |-> CountId(NpiNdcGroup(info, k))]

\* Lines 62-72: the two left merges onto fills_count, the missing values
\* filled with 0, the prices rounded.  The frame's row order (sorted by key)
\* is left out: the result is the set of its rows.
calculate_goal_2_metrics(claims, reverts) ==
    LET fills   == fills_count(claims)
        revs    == reverts_count(claims, reverts)
        metrics == metrics_df(valid_claims_df(claims, reverts))
    IN  {[npi         |-> k[1],
          ndc         |-> k[2],
          fills       |-> fills[k],
          reverted    |-> IF k \in DOMAIN revs THEN revs[k] ELSE 0,
          avg_price   |-> Round2(IF k \in DOMAIN metrics
                                 THEN metrics[k].avg_price ELSE Zero),
          total_price |-> Round2(IF k \in DOMAIN metrics
                                 THEN metrics[k].total_price ELSE Zero)]
         : k \in DOMAIN fills}

\* The columns calculate_goal_2_metrics reads; a missing one is a KeyError.
Goal2Raises(claims, reverts) ==
    \/ "claim_id" \notin reverts.cols
    \/ ~({"id", "npi", "ndc", "price", "quantity"} \subseteq claims.cols)

----------------------------------------------------------------------------
(* calculate_goal_3_recommendations *)

\* How many chains head(2) keeps per drug.
TopChains == 2

\* Line 85: pd.merge(valid_claims_df, pharmacy_df, on='npi'), an inner join:
\* one row per (claim, pharmacy) pair with the same npi.
RECURSIVE chain_prices_df(_, _)
chain_prices_df(valid, pharmacy) ==
    IF valid = << >> THEN << >>
    ELSE LET c == Head(valid)
             m == SelectSeq(pharmacy.rows, LAMBDA p : p.npi = c.npi)
         IN  [j \in 1..Len(m) |->
                 [ndc |-> c.ndc, chain |-> m[j].chain,
                  unit_price |-> c.unit_price]]
             \o chain_prices_df(Tail(valid), pharmacy)

\* Lines 87-88: per (ndc, chain) of the joined rows (rows with a missing key
\* left out), the mean unit price, rounded.
avg_chain_price_df(joined) ==
    LET keys == {<< r.ndc, r.chain >> :
                    r \in {x \in Range(joined) : x.ndc # NaN /\ x.chain # NaN}}
        grp(k) == SelectSeq(joined, LAMBDA r : r.ndc = k[1] /\ r.chain = k[2])
    IN  {[ndc |-> k[1], chain |-> k[2],
          avg_price |-> Round2(RMean(Column(grp(k), "unit_price")))] : k \in keys}

\* SortByAvgPrice with ascending=False.
RECURSIVE SortByAvgPriceDescending(_)
SortByAvgPriceDescending(S) ==
    IF S = {} THEN {<< >>}
    ELSE UNION {{<< x >> \o s : s \in SortByAvgPriceDescending(S \ {x})} :
                   x \in {y \in S : \A z \in S : RLeq(z.avg_price, y.avg_price)}}

\* Line 90, sort_values('avg_price'): the orders of the rows that ascend by
\* avg_price.  The default sort (quicksort) is not stable, so rows of equal
\* avg_price may come in any order.
RECURSIVE SortByAvgPrice(_)
SortByAvgPrice(S) ==
    IF S = {} THEN {<< >>}
    ELSE UNION {{<< x >> \o s : s \in SortByAvgPrice(S \ {x})} :
                   x \in {y \in S : \A z \in S : RLeq(y.avg_price, z.avg_price)}}

RECURSIVE GroupHeadFrom(_, _, _)
GroupHeadFrom(s, k, i) ==
    IF i > Len(s) THEN << >>
    ELSE (IF Cardinality({j \in 1..(i - 1) : s[j].ndc = s[i].ndc}) < k
          THEN << s[i] >> ELSE << >>) \o GroupHeadFrom(s, k, i + 1)

\* groupby('ndc').head(k): the first k rows of each ndc, in the frame's order.
GroupHead(s, k) == GroupHeadFrom(s, k, 1)

\* Lines 92-93: the rows of one group as {name, avg_price} records.
format_chains(group) ==
    [i \in 1..Len(group) |->
        [name |-> group[i].chain, avg_price |-> group[i].avg_price]]

\* Lines 95-98 for a non-empty top_2_chains: one record per ndc.
Goal3Records(top_2_chains) ==
    {[ndc   |-> d,
      chain |-> format_chains(SelectSeq(top_2_chains, LAMBDA r : r.ndc = d))]
     : d \in {r.ndc : r \in Range(top_2_chains)}}

\* Lines 78-90: the frames top_2_chains can be.
top_2_chains(claims, pharmacy, reverts) ==
    LET joined == chain_prices_df(valid_claims_df(claims, reverts), pharmacy)
    IN  {GroupHead(s, TopChains) : s \in SortByAvgPrice(avg_chain_price_df(joined))}

\* What calculate_goal_3_recommendations can return.
calculate_goal_3_recommendations(claims, pharmacy, reverts) ==
    {Goal3Records(t) : t \in top_2_chains(claims, pharmacy, reverts)}

\* Where calculate_goal_3_recommendations raises: a column it reads is
\* missing (KeyError; 'chain' at line 87), or top_2_chains is empty: apply
\* on a frame with no groups returns a DataFrame, and
\* DataFrame.reset_index has no parameter 'name' (TypeError, line 95).
Goal3Raises(claims, pharmacy, reverts) ==
    \/ "claim_id" \notin reverts.cols
    \/ ~({"id", "npi", "ndc", "price", "quantity"} \subseteq claims.cols)
    \/ ~({"npi", "chain"} \subseteq pharmacy.cols)
    \/ top_2_chains(claims, pharmacy, reverts) = {<< >>}

----------------------------------------------------------------------------
(* calculate_goal_4_common_quantities *)

\* How many quantities head(5) keeps per drug.
TopQuantities == 5

\* Goal4Claims with the quantity > 0 filter of Goals 2 and 3 added.
Goal4ClaimsPositive(claims) ==
    LET df == DropNa(Frame(claims.cols,
                           [i \in 1..Len(claims.rows) |->
                               [claims.rows[i] EXCEPT
                                   !.quantity = ToNumeric(claims.rows[i].quantity)]]),
                     {"quantity"})
    IN  Frame(df.cols, SelectSeq(df.rows, LAMBDA r : RLess(Zero, r.quantity)))

\* Lines 104-105: quantity coerced to a number and the rows where it is
\* missing dropped, both in place: this is the frame the caller holds
\* afterwards.
Goal4Claims(claims) ==
    DropNa(Frame(claims.cols,
                 [i \in 1..Len(claims.rows) |->
                     [claims.rows[i] EXCEPT
                         !.quantity = ToNumeric(claims.rows[i].quantity)]]),
           {"quantity"})

\* Line 107: per (ndc, quantity), the number of rows (rows with a missing
\* ndc left out).
quantity_counts(rows) ==
    LET keys == {<< r.ndc, r.quantity >> : r \in {x \in Range(rows) : x.ndc # NaN}}
    IN  {[ndc |-> k[1], quantity |-> k[2],
          count |-> Len(SelectSeq(rows, LAMBDA r : r.ndc = k[1] /\ r.quantity = k[2]))]
         : k \in keys}

\* SortByCountDesc with ascending=False left out.
RECURSIVE SortByCountAscending(_)
SortByCountAscending(S) ==
    IF S = {} THEN {<< >>}
    ELSE UNION {{<< x >> \o s : s \in SortByCountAscending(S \ {x})} :
                   x \in {y \in S : \A z \in S : y.count <= z.count}}

\* Line 109, sort_values('count', ascending=False): the orders of the rows
\* that descend by count; rows of equal count may come in any order.
RECURSIVE SortByCountDesc(_)
SortByCountDesc(S) ==
    IF S = {} THEN {<< >>}
    ELSE UNION {{<< x >> \o s : s \in SortByCountDesc(S \ {x})} :
                   x \in {y \in S : \A z \in S : y.count >= z.count}}

\* Lines 109-114: what calculate_goal_4_common_quantities can return.
calculate_goal_4_common_quantities(claims) ==
    LET counts == quantity_counts(Goal4Claims(claims).rows)
        rec(t) == {[ndc |-> d,
                    most_prescribed_quantity |->
                        Column(SelectSeq(t, LAMBDA r : r.ndc = d), "quantity")]
                   : d \in {r.ndc : r \in Range(t)}}
    IN  {rec(GroupHead(s, TopQuantities)) : s \in SortByCountDesc(counts)}

\* The columns calculate_goal_4_common_quantities reads.
Goal4Raises(claims) == ~({"ndc", "quantity"} \subseteq claims.cols)

----------------------------------------------------------------------------
(* main *)

OutputFiles ==
    {"goal_2_metrics.json", "goal_3_recommendations.json",
     "goal_4_common_quantities.json"}

\* KnownPharmacyClaims with the isin filter of line 142 left out.
KnownPharmacyClaimsUnfiltered(claims, pharmacy) == claims

\* Line 142: the claims whose npi is the npi of some pharmacy.
KnownPharmacyClaims(claims, pharmacy) ==
    Frame(claims.cols,
          SelectSeq(claims.rows,
                    LAMBDA r : IsIn(r.npi, {p.npi : p \in Range(pharmacy.rows)})))

\* Lines 129-151: the two checks (a return each), the cleaning in place
\* (dropna(subset=['npi', 'id']) raises KeyError when the claims have no id
\* column), the filter to known pharmacies and the return when no claim is
\* left; then the output directory is made.
MainChecks ==
    /\ pc = "checks"
    /\ IF \/ Empty(pharmacy_df) \/ "npi" \notin pharmacy_df.cols
          \/ Empty(claims_df) \/ "npi" \notin claims_df.cols
       THEN /\ pc' = "returned"
            /\ UNCHANGED << pharmacy_df, claims_df >>
       ELSE IF "id" \notin claims_df.cols
       THEN /\ pc' = "raised"
            /\ pharmacy_df' = DropNa(pharmacy_df, {"npi"})
            /\ UNCHANGED claims_df
       ELSE LET ph    == DropNa(pharmacy_df, {"npi"})
                known == KnownPharmacyClaims(DropNa(claims_df, {"npi", "id"}), ph)
            IN  /\ pharmacy_df' = ph
                /\ claims_df' = known
                /\ pc' = IF Empty(known) THEN "returned" ELSE "goal2"
    /\ UNCHANGED << claims_loaded, reverts_df, files,
                    goal_2_output, goal_3_output, goal_4_output >>

\* Lines 153-157: Goal 2 is computed, then its file is written.
Goal2Step ==
    /\ pc = "goal2"
    /\ IF Goal2Raises(claims_df, reverts_df)
       THEN /\ pc' = "raised"
            /\ UNCHANGED << files, goal_2_output >>
       ELSE /\ goal_2_output' = calculate_goal_2_metrics(claims_df, reverts_df)
            /\ files' = files \cup {"goal_2_metrics.json"}
            /\ pc' = "goal3"
    /\ UNCHANGED << claims_loaded, pharmacy_df, claims_df, reverts_df,
                    goal_3_output, goal_4_output >>

\* Lines 159-164: Goal 3 is computed, then its file is written.
Goal3Step ==
    /\ pc = "goal3"
    /\ IF Goal3Raises(claims_df, pharmacy_df, reverts_df)
       THEN /\ pc' = "raised"
            /\ UNCHANGED << files, goal_3_output >>
       ELSE /\ goal_3_output' \in
                   calculate_goal_3_recommendations(claims_df, pharmacy_df, reverts_df)
            /\ files' = files \cup {"goal_3_recommendations.json"}
            /\ pc' = "goal4"
    /\ UNCHANGED << claims_loaded, pharmacy_df, claims_df, reverts_df,
                    goal_2_output, goal_4_output >>

\* Lines 166-173: Goal 4 is computed on main's claims_df, which it changes
\* in place; then its file is written.
Goal4Step ==
    /\ pc = "goal4"
    /\ IF Goal4Raises(claims_df)
       THEN /\ pc' = "raised"
            /\ UNCHANGED << files, goal_4_output, claims_df >>
       ELSE /\ claims_df' = Goal4Claims(claims_df)
            /\ goal_4_output' \in calculate_goal_4_common_quantities(claims_df)
            /\ files' = files \cup {"goal_4_common_quantities.json"}
            /\ pc' = "done"
    /\ UNCHANGED << claims_loaded, pharmacy_df, reverts_df,
                    goal_2_output, goal_3_output >>

Next == MainChecks \/ Goal2Step \/ Goal3Step \/ Goal4Step

\* main has ended: by a return, by an uncaught exception, or at its last line.
Ended == pc \in {"returned", "raised", "done"}

----------------------------------------------------------------------------
(* The loaded collections: load_data_from_dirs *)

\* The texts of the price and quantity cells.
T(a) == Str(<< a >>)

TT(a, b) == Str(<< a, b >>)

TTT(a, b, c) == Str(<< a, b, c >>)

TTTT(a, b, c, e) == Str(<< a, b, c, e >>)

Claim(id, npi, ndc, price, quantity) ==
    [id |-> id, npi |-> npi, ndc |-> ndc, price |-> price, quantity |-> quantity]

Pharmacy(npi, chain) == [npi |-> npi, chain |-> chain]

Revert(claim_id) == [claim_id |-> claim_id]

ClaimCols == {"id", "npi", "ndc", "price", "quantity"}

\* A frame none of whose records has field c: the column is not there.
WithoutColumn(df, c) ==
    Frame(df.cols \ {c},
          [i \in 1..Len(df.rows) |->
              [df.rows[i] EXCEPT ![c] = IF c \in NumericFields THEN NaNCell ELSE NaN]])

RECURSIVE NonDecreasing(_, _, _)
NonDecreasing(lo, hi, k) ==
    IF k = 0 THEN {<< >>}
    ELSE UNION {{<< x >> \o s : s \in NonDecreasing(x, hi, k - 1)} : x \in lo..hi}

\* The row sequences of at most max records of a catalog.  pd.concat keeps
\* the records in file order; the program's steps do not depend on the row
\* order (its sorts order by value, ties arbitrary), so one order per
\* multiset of records is drawn.
RowsOf(catalog, max) ==
    UNION {{[i \in 1..k |-> catalog[s[i]]] : s \in NonDecreasing(1, Len(catalog), k)}
           : k \in 0..max}

\* The state main is in once the three collections are loaded (line 127).
Loaded(pharmacy, claims, reverts) ==
    /\ pharmacy_df = pharmacy
    /\ claims_loaded = claims
    /\ claims_df = claims
    /\ reverts_df = reverts
    /\ pc = "checks"
    /\ files = {}
    /\ goal_2_output = {}
    /\ goal_3_output = {}
    /\ goal_4_output = {}

(* -- the pipeline as a whole -- *)

MaxClaims == 2

PipelineClaims ==
    << Claim("c1", "1", "D1", TTT("1", "0", "0"), TT("1", "0")),
       Claim("c2", "2", "D1", TT("5", "0"), TT("1", "0")),
       Claim("c3", "3", "D1", TT("3", "0"), T("5")),
       Claim(NaN, "1", "D1", TTT("1", "0", "0"), TT("1", "0")),
       Claim("c5", NaN, "D1", TTT("1", "0", "0"), TT("1", "0")),
       Claim("c6", "1", "D2", TT("2", "0"), T("x")),
       Claim("c7", "2", "D2", TT("2", "0"), T("0")) >>

PipelinePharmacies ==
    { EmptyFrame,
      Frame({"npi", "chain"}, << Pharmacy("1", "A"), Pharmacy("2", "B") >>),
      Frame({"npi", "chain"}, << Pharmacy("1", "A") >>),
      Frame({"npi", "chain"}, << Pharmacy("1", "A"), Pharmacy(NaN, "B") >>),
      Frame({"npi"}, << Pharmacy("1", NaN), Pharmacy("2", NaN) >>),
      Frame({"chain"}, << Pharmacy(NaN, "A") >>) }

PipelineReverts ==
    { EmptyFrame,
      Frame({"claim_id"}, << >>),
      Frame({"claim_id"}, << Revert("c1") >>),
      Frame({"claim_id"}, << Revert("c9") >>),
      Frame({"claim_id"}, << Revert("c1"), Revert("c2") >>),
      Frame({"id"}, << Revert(NaN) >>) }

\* The claim frames: every record with all five fields, or no record with
\* one of them; no file at all gives pd.DataFrame().
PipelineClaimFrames ==
    LET full == {Frame(ClaimCols, rows) : rows \in RowsOf(PipelineClaims, MaxClaims)}
    IN  {EmptyFrame} \cup full
            \cup {WithoutColumn(df, c) : df \in full, c \in ClaimCols}

Init ==
    \E pharmacy \in PipelinePharmacies, claims \in PipelineClaimFrames,
       reverts \in PipelineReverts :
        Loaded(pharmacy, claims, reverts)

Spec == Init /\ [][Next]_vars

(* -- claims with the prices, quantities and reverts Goal 2 must handle -- *)

MaxMetricsClaims == 3

MetricsClaims ==
    << Claim("c1", "1", "D1", TTT("1", "0", "0"), TT("1", "0")),
       Claim("c1", "1", "D1", TT("1", "0"), T("3")),
       Claim("c2", "2", "D1", TT("5", "0"), TT("1", "0")),
       Claim("c3", "1", "D1", TTTT("-", "1", "0", "0"), TT("1", "0")),
       Claim("c4", "1", "D2", TT("2", "0"), T("0")),
       Claim("c5", "2", "D2", T("x"), T("4")),
       Claim("c6", "2", "D2", T("7"), TT("-", "2")),
       Claim("c7", "2", "D2", Str(<< "0", ".", "1", "2", "5" >>), T("1")) >>

MetricsReverts ==
    { Frame({"claim_id"}, << >>),
      Frame({"claim_id"}, << Revert("c1") >>),
      Frame({"claim_id"}, << Revert("c1"), Revert("c1") >>),
      Frame({"claim_id"}, << Revert("c1"), Revert("c9") >>),
      Frame({"claim_id"}, << Revert("c7") >>),
      Frame({"claim_id"}, << Revert("c3"), Revert("c4") >>) }

InitMetrics ==
    \E rows \in RowsOf(MetricsClaims, MaxMetricsClaims), reverts \in MetricsReverts :
        Loaded(Frame({"npi", "chain"}, << Pharmacy("1", "A"), Pharmacy("2", "B") >>),
               Frame(ClaimCols, rows), reverts)

SpecMetrics == InitMetrics /\ [][Next]_vars

(* -- claims at the pharmacies of three chains -- *)

MaxChainClaims == 4

ChainClaims ==
    << Claim("c1", "1", "D1", TTT("1", "0", "0"), TT("1", "0")),
       Claim("c2", "2", "D1", TT("5", "0"), TT("1", "0")),
       Claim("c3", "3", "D1", TT("3", "0"), TT("1", "0")),
       Claim("c4", "3", "D1", TTT("1", "0", "0"), TT("1", "0")),
       Claim("c5", "2", "D1", T("1"), T("3")),
       Claim("c6", "1", "D2", TT("2", "0"), TT("1", "0")),
       Claim("c7", "2", "D2", TT("2", "0"), T("0")) >>

ChainPharmacies ==
    { Frame({"npi", "chain"},
            << Pharmacy("1", "A"), Pharmacy("2", "B"), Pharmacy("3", "C") >>),
      Frame({"npi", "chain"},
            << Pharmacy("1", "A"), Pharmacy("2", "B"), Pharmacy("3", "C"),
               Pharmacy("1", "B") >>),
      Frame({"npi", "chain"},
            << Pharmacy("1", "A"), Pharmacy("2", "A"), Pharmacy("3", "B") >>) }

ChainReverts ==
    { Frame({"claim_id"}, << >>),
      Frame({"claim_id"}, << Revert("c3") >>) }

InitChains ==
    \E pharmacy \in ChainPharmacies, rows \in RowsOf(ChainClaims, MaxChainClaims),
       reverts \in ChainReverts :
        Loaded(pharmacy, Frame(ClaimCols, rows), reverts)

SpecChains == InitChains /\ [][Next]_vars

(* -- claims with many quantities of one drug -- *)

MaxQuantityClaims == 7

QuantityClaims ==
    << Claim("c1", "1", "D1", TT("1", "0"), T("1")),
       Claim("c2", "1", "D1", TT("1", "0"), T("2")),
       Claim("c3", "1", "D1", TT("1", "0"), T("3")),
       Claim("c4", "2", "D1", TT("1", "0"), T("4")),
       Claim("c5", "2", "D1", TT("1", "0"), T("5")),
       Claim("c6", "2", "D1", TT("1", "0"), T("6")),
       Claim("c7", "2", "D1", TT("1", "0"), TTT("1", ".", "0")),
       Claim("c8", "1", "D1", TT("1", "0"), T("x")),
       Claim("c9", "1", "D2", TT("1", "0"), T("1")) >>

InitQuantities ==
    \E rows \in RowsOf(QuantityClaims, MaxQuantityClaims) :
        Loaded(Frame({"npi", "chain"}, << Pharmacy("1", "A"), Pharmacy("2", "B") >>),
               Frame(ClaimCols, rows),
               Frame({"claim_id"}, << Revert("c2") >>))

SpecQuantities == InitQuantities /\ [][Next]_vars

----------------------------------------------------------------------------
(* Shared by the properties below *)

\* The loaded claims that pass main's cleaning and filter: id and npi
\* present, npi that of a pharmacy.
Eligible(r) ==
    /\ r.id # NaN
    /\ r.npi # NaN
    /\ \E p \in Range(pharmacy_df.rows) : p.npi = r.npi

EligibleClaims == SelectSeq(claims_loaded.rows, Eligible)

Reverted(r) == \E v \in Range(reverts_df.rows) : v.claim_id = r.id

Wrote(f) == f \in files

----------------------------------------------------------------------------
(* Properties of the pipeline as a whole (Spec) *)

\* C1: when a run of main has ended, either all three output files have
\* been written or none has.
C1_AllOrNoOutputFiles == Ended => (files = {} \/ files = OutputFiles)

ScenarioPharmacies ==
    Frame({"npi", "chain"}, << Pharmacy("1", "A"), Pharmacy("2", "B") >>)

ScenarioClaims == Frame(ClaimCols, << PipelineClaims[1], PipelineClaims[2] >>)

ScenarioGoal2 ==
    {[npi |-> "1", ndc |-> "D1", fills |-> 1, reverted |-> 0,
      avg_price |-> Num(10, 1), total_price |-> Num(100, 1)],
     [npi |-> "2", ndc |-> "D1", fills |-> 1, reverted |-> 0,
      avg_price |-> Num(5, 1), total_price |-> Num(50, 1)]}

ScenarioGoal3 ==
    {[ndc |-> "D1",
      chain |-> << [name |-> "B", avg_price |-> Num(5, 1)],
                   [name |-> "A", avg_price |-> Num(10, 1)] >>]}

\* C4: with no revert record loaded, the run on pharmacies {1: A, 2: B} and
\* claims c1 (1, D1, 100, 10), c2 (2, D1, 50, 10) completes, Goal 2 yields
\* (1, D1): 1, 0, 10.0, 100.0 and (2, D1): 1, 0, 5.0, 50.0, and Goal 3
\* yields D1 -> [{B, 5.0}, {A, 10.0}].
C4_EmptyRevertsScenario ==
    (/\ Ended
     /\ claims_loaded = ScenarioClaims
     /\ pharmacy_df = ScenarioPharmacies
     /\ reverts_df.rows = << >>)
    => (/\ pc = "done"
        /\ goal_2_output = ScenarioGoal2
        /\ goal_3_output = ScenarioGoal3)

\* C6: no goal computation changes the claim collection it is given.
C6_GoalsLeaveClaimsUnchanged ==
    [][(pc \in {"goal2", "goal3", "goal4"}) => (claims_df' = claims_df)]_vars

\* The eligible loaded claims of a drug whose quantity is the number q.
EligibleWithQuantity(d, q) ==
    SelectSeq(EligibleClaims, LAMBDA r : r.ndc = d /\ ToNumeric(r.quantity) = q)

\* The rounded mean unit prices per (ndc, chain) of the eligible claims.
EligibleChainPrices ==
    avg_chain_price_df(
        chain_prices_df(
            valid_claims_df(Frame(ClaimCols, EligibleClaims), reverts_df),
            pharmacy_df))

\* C10: a claim whose npi is that of no pharmacy, or that lacks npi or id,
\* counts in no Goal 2 row, no Goal 3 average and no Goal 4 quantity; when
\* no claim passes the filter the run ends with no file written.
C10_OnlyKnownPharmacyClaimsCount ==
    /\ Wrote("goal_2_metrics.json") =>
           \A row \in goal_2_output :
               row.fills = Len(SelectSeq(EligibleClaims,
                                         LAMBDA r : r.npi = row.npi /\ r.ndc = row.ndc))
    /\ Wrote("goal_3_recommendations.json") =>
           \A rec \in goal_3_output : \A i \in 1..Len(rec.chain) :
               [ndc |-> rec.ndc, chain |-> rec.chain[i].name,
                avg_price |-> rec.chain[i].avg_price] \in EligibleChainPrices
    /\ Wrote("goal_4_common_quantities.json") =>
           \A rec \in goal_4_output :
               LET qs == rec.most_prescribed_quantity
               IN  /\ \A i \in 1..Len(qs) : EligibleWithQuantity(rec.ndc, qs[i]) # << >>
                   /\ \A i, j \in 1..Len(qs) :
                          i < j => Len(EligibleWithQuantity(rec.ndc, qs[i]))
                                       >= Len(EligibleWithQuantity(rec.ndc, qs[j]))
    /\ (Ended /\ EligibleClaims = << >>) => (files = {} /\ pc # "done")

\* A run that completed although a loaded claim named an unknown pharmacy,
\* and one that ended because every loaded claim did.
C10_Witness ==
    /\ pc = "done"
    /\ \E r \in Range(claims_loaded.rows) :
           r.id # NaN /\ r.npi # NaN /\ ~Eligible(r)
    /\ goal_2_output # {} /\ goal_3_output # {} /\ goal_4_output # {}

\* A claim that feeds the price metrics: not reverted, price and quantity
\* numbers, quantity > 0.
ValidForPrice(r) ==
    /\ ~Reverted(r)
    /\ IsNum(ToNumeric(r.price))
    /\ IsNum(ToNumeric(r.quantity))
    /\ RLess(Zero, ToNumeric(r.quantity))

\* The eligible claims of an (npi, ndc) key.
KeyClaims(npi, ndc) ==
    SelectSeq(EligibleClaims, LAMBDA r : r.npi = npi /\ r.ndc = ndc)

\* The eligible claims of a drug at the pharmacies of a chain.
PairClaims(ndc, chain) ==
    SelectSeq(EligibleClaims,
              LAMBDA r : /\ r.ndc = ndc
                         /\ \E p \in Range(pharmacy_df.rows) :
                                p.npi = r.npi /\ p.chain = chain)

TwoDecimals(x) == (100 * x.n) % x.d = 0

----------------------------------------------------------------------------
(* Properties of Goal 2 and of the claims it shares with Goals 3 and 4
   (SpecMetrics) *)

\* C2: every Goal 2 row has reverted <= fills.
C2_RevertedAtMostFills ==
    \A row \in goal_2_output : row.reverted <= row.fills

\* A row with some but not all fills reverted, the revert frame naming a
\* claim twice.
C2_Witness ==
    /\ \E row \in goal_2_output : row.reverted >= 1 /\ row.reverted < row.fills
    /\ \E i, j \in 1..Len(reverts_df.rows) :
           i # j /\ reverts_df.rows[i].claim_id = reverts_df.rows[j].claim_id

\* C3 as stated: every Goal 2 row has avg_price >= 0 and total_price >= 0,
\* each with two decimal places.
C3_PricesNonNegativeTwoDecimals ==
    \A row \in goal_2_output :
        /\ RLeq(Zero, row.avg_price) /\ RLeq(Zero, row.total_price)
        /\ TwoDecimals(row.avg_price) /\ TwoDecimals(row.total_price)

\* C3 as amended: every Goal 2 row has avg_price and total_price with two
\* decimal places, and both are >= 0 when no claim of the row's key that
\* feeds the price metrics has a negative price.
C3_TwoDecimalsNonNegativeForNonNegativePrices ==
    \A row \in goal_2_output :
        /\ TwoDecimals(row.avg_price) /\ TwoDecimals(row.total_price)
        /\ (\A r \in Range(KeyClaims(row.npi, row.ndc)) :
                ValidForPrice(r) => RLeq(Zero, ToNumeric(r.price)))
           => (RLeq(Zero, row.avg_price) /\ RLeq(Zero, row.total_price))

\* A row whose positive mean unit price the rounding changed.
C3_Witness ==
    \E row \in goal_2_output :
        LET m == metrics_df(valid_claims_df(Frame(ClaimCols, EligibleClaims),
                                            reverts_df))
            k == << row.npi, row.ndc >>
        IN  /\ k \in DOMAIN m
            /\ RLess(Zero, row.avg_price)
            /\ m[k].avg_price # row.avg_price
            /\ m[k].total_price # row.total_price

\* C5: a key all of whose claims are reverted keeps its Goal 2 row, with
\* fills = reverted and avg_price = total_price = 0; a (ndc, chain) pair all
\* of whose claims are reverted is not in the Goal 3 output, and no Goal 3
\* record has an empty chain list.
C5_RevertedClaimsHaveNoPrice ==
    /\ Wrote("goal_2_metrics.json") =>
           \A k \in NpiNdcKeys(EligibleClaims) :
               (\A r \in Range(KeyClaims(k[1], k[2])) : Reverted(r)) =>
                   \E row \in goal_2_output :
                       /\ row.npi = k[1] /\ row.ndc = k[2]
                       /\ row.fills = Len(KeyClaims(k[1], k[2]))
                       /\ row.reverted = row.fills
                       /\ row.avg_price = Zero /\ row.total_price = Zero
    /\ Wrote("goal_3_recommendations.json") =>
           \A rec \in goal_3_output :
               /\ rec.chain # << >>
               /\ \A i \in 1..Len(rec.chain) :
                      \E r \in Range(PairClaims(rec.ndc, rec.chain[i].name)) :
                          ~Reverted(r)

\* A completed run with a fully reverted key and a drug, all of whose
\* claims are reverted, that has no Goal 3 record.
C5_Witness ==
    /\ pc = "done"
    /\ goal_3_output # {}
    /\ \E k \in NpiNdcKeys(EligibleClaims) :
           /\ \A r \in Range(EligibleClaims) : r.ndc = k[2] => Reverted(r)
           /\ \A rec \in goal_3_output : rec.ndc # k[2]
           /\ \E row \in goal_2_output :
                  row.npi = k[1] /\ row.ndc = k[2] /\ row.reverted = row.fills

\* C9: Goal 4 ranks the quantities of a drug by their number of claims
\* among all the eligible claims whose quantity is a number, reverted or
\* not, positive or not, price a number or not, and lists each of them
\* unless five others with at least as many claims fill the list; the
\* Goal 2 prices and the Goal 3 chains rest only on the claims that are
\* not reverted and have quantity > 0.
C9_Goal4CountsEveryClaim ==
    /\ Wrote("goal_4_common_quantities.json") =>
           /\ \A rec \in goal_4_output :
                  LET qs == rec.most_prescribed_quantity
                  IN  \A i, j \in 1..Len(qs) :
                          i < j => Len(EligibleWithQuantity(rec.ndc, qs[i]))
                                       >= Len(EligibleWithQuantity(rec.ndc, qs[j]))
           /\ \A r \in Range(EligibleClaims) :
                  (r.ndc # NaN /\ IsNum(ToNumeric(r.quantity))) =>
                      \E rec \in goal_4_output :
                          LET qs == rec.most_prescribed_quantity
                              q  == ToNumeric(r.quantity)
                          IN  /\ rec.ndc = r.ndc
                              /\ \/ q \in Range(qs)
                                 \/ /\ Len(qs) = TopQuantities
                                    /\ \A i \in 1..Len(qs) :
                                           Len(EligibleWithQuantity(r.ndc, qs[i]))
                                               >= Len(EligibleWithQuantity(r.ndc, q))
    /\ Wrote("goal_2_metrics.json") =>
           \A row \in goal_2_output :
               LET v == SelectSeq(KeyClaims(row.npi, row.ndc), ValidForPrice)
                   price(i) == ToNumeric(v[i].price)
                   unit(i)  == RDiv(ToNumeric(v[i].price), ToNumeric(v[i].quantity))
               IN  /\ row.total_price = Round2(RSum([i \in 1..Len(v) |-> price(i)]))
                   /\ row.avg_price =
                          IF v = << >> THEN Zero
                          ELSE Round2(RMean([i \in 1..Len(v) |-> unit(i)]))
    /\ Wrote("goal_3_recommendations.json") =>
           \A rec \in goal_3_output : \A i \in 1..Len(rec.chain) :
               \E r \in Range(PairClaims(rec.ndc, rec.chain[i].name)) :
                   ValidForPrice(r)

\* A completed run whose Goal 4 lists the quantity of a reverted claim and
\* a quantity that is not positive, neither of them that of a valid claim.
C9_Witness ==
    /\ pc = "done"
    /\ \E r \in Range(EligibleClaims) : \E rec \in goal_4_output :
           /\ Reverted(r) /\ rec.ndc = r.ndc
           /\ ToNumeric(r.quantity) \in Range(rec.most_prescribed_quantity)
           /\ \A o \in Range(EligibleClaims) :
                  (ValidForPrice(o) /\ o.ndc = r.ndc) =>
                      ToNumeric(o.quantity) # ToNumeric(r.quantity)
    /\ \E r \in Range(EligibleClaims) : \E rec \in goal_4_output :
           /\ IsNum(ToNumeric(r.quantity)) /\ RLeq(ToNumeric(r.quantity), Zero)
           /\ rec.ndc = r.ndc
           /\ ToNumeric(r.quantity) \in Range(rec.most_prescribed_quantity)

----------------------------------------------------------------------------
(* Properties of Goal 3 (SpecChains) *)

\* The chains with a valid claim for a drug, each with its rounded mean
\* unit price.
ChainsOf(ndc) == {c \in EligibleChainPrices : c.ndc = ndc}

\* C7: every Goal 3 chain list has 1 or 2 entries, ascends by avg_price,
\* and holds the chains of lowest rounded mean unit price among the chains
\* with a valid claim for the drug: all of them when there are at most 2.
C7_TwoCheapestChainsAscending ==
    Wrote("goal_3_recommendations.json") =>
        \A rec \in goal_3_output :
            LET cs     == rec.chain
                listed == {[ndc |-> rec.ndc, chain |-> cs[i].name,
                            avg_price |-> cs[i].avg_price] : i \in 1..Len(cs)}
            IN  /\ Len(cs) >= 1 /\ Len(cs) <= 2
                /\ \A i, j \in 1..Len(cs) :
                       i < j => RLeq(cs[i].avg_price, cs[j].avg_price)
                /\ listed \subseteq ChainsOf(rec.ndc)
                /\ Cardinality(listed) = Len(cs)
                /\ Len(cs) < 2 => listed = ChainsOf(rec.ndc)
                /\ \A o \in ChainsOf(rec.ndc) \ listed : \A l \in listed :
                       RLeq(l.avg_price, o.avg_price)

\* A completed run where a drug has valid claims at three chains, two of
\* them at the same avg_price, and a list of two.
C7_Witness ==
    /\ pc = "done"
    /\ \E rec \in goal_3_output :
           /\ Len(rec.chain) = 2
           /\ Cardinality(ChainsOf(rec.ndc)) = 3
           /\ RLess(rec.chain[1].avg_price, rec.chain[2].avg_price)
           /\ \E o \in ChainsOf(rec.ndc) :
                  /\ o.chain # rec.chain[2].name
                  /\ o.avg_price = rec.chain[2].avg_price

----------------------------------------------------------------------------
(* Properties of Goal 4 (SpecQuantities) *)

\* The quantities the eligible claims of a drug have.
QuantitiesOf(ndc) ==
    {ToNumeric(r.quantity) :
        r \in {x \in Range(EligibleClaims) :
                  x.ndc = ndc /\ IsNum(ToNumeric(x.quantity))}}

\* C8: every Goal 4 list has at most 5 entries, no quantity twice, and
\* descends by number of claims; no quantity left out has more claims
\* than a listed one.
C8_FiveMostCommonQuantities ==
    Wrote("goal_4_common_quantities.json") =>
        \A rec \in goal_4_output :
            LET qs == rec.most_prescribed_quantity
                n(q) == Len(EligibleWithQuantity(rec.ndc, q))
            IN  /\ Len(qs) <= 5
                /\ \A i, j \in 1..Len(qs) : i # j => qs[i] # qs[j]
                /\ \A i, j \in 1..Len(qs) : i < j => n(qs[i]) >= n(qs[j])
                /\ \A o \in QuantitiesOf(rec.ndc) \ Range(qs) :
                       \A i \in 1..Len(qs) : n(qs[i]) >= n(o)

\* A completed run where a drug has six quantities, one of them written
\* in two ways and so with two claims, and a list of five.
C8_Witness ==
    /\ pc = "done"
    /\ \E rec \in goal_4_output :
           LET qs == rec.most_prescribed_quantity
           IN  /\ Len(qs) = 5
               /\ Cardinality(QuantitiesOf(rec.ndc)) = 6
               /\ Len(EligibleWithQuantity(rec.ndc, qs[1])) = 2
               /\ \E r, o \in Range(EligibleClaims) :
                      /\ r.quantity # o.quantity
                      /\ ToNumeric(r.quantity) = qs[1]
                      /\ ToNumeric(o.quantity) = qs[1]

====
